---- MODULE Spec2Model ----
(***************************************************************************)
(* Model of the alemian-saga core: the viewport / cursor / zoom state      *)
(* machine of run_internal (alemian-saga-core/src/detail.rs) as driven by  *)
(* the events the web platform produces (alemian-saga/src/lib.rs).         *)
(*                                                                         *)
(* Numbers.                                                                *)
(*  - MapDistance is u32.  A u32 value is represented by its residue       *)
(*    modulo 2^32: a negative integer r stands for 2^32 + r, the value a   *)
(*    wrapping subtraction produces.  Sub32 reports whether a subtraction  *)
(*    wrapped; a build with overflow checks (overflow_checks, the debug    *)
(*    profile) panics there, a build without them continues with the       *)
(*    wrapped value.  Gt32 is the u32 order on residues.                   *)
(*  - ScreenDistance is f64.  Screen sizes are drawn from ScreenSizes,     *)
(*    multiples of every viewport extent the model reaches, so that every  *)
(*    tile size is an integer and f64 quotients are exact.                 *)
(*  - Instants and durations are milliseconds (Date::now()).              *)
(*                                                                         *)
(* Specifications.                                                         *)
(*  - Spec: the event loop on a constructed Game, one action per event.    *)
(*  - RunSpec: run_internal from its entry: the map file and image         *)
(*    futures awaited one after the other, the map generation, the Game    *)
(*    construction and the first redraw, then the loop fed by the queue.   *)
(*    An image element's load state is chosen when its future is polled:   *)
(*    the awaits are sequential, so only the polled state is observable.   *)
(*    FairRunSpec adds weak fairness of the task's steps and of the        *)
(*    browser delivering a pending load's outcome.                         *)
(*  - QueueSpec: the loop of a constructed Game fed through the mpsc       *)
(*    channel by the platform's listeners.                                 *)
(***************************************************************************)
EXTENDS Integers, Sequences, FiniteSets, TLC

VARIABLES pc, overflow_checks, map_size, screen_size, cursor_pos, screen,
          last_mouse_pan, now, last_event, last_pos, draws, overflowed,
          map_file, requests, resolved, awaiting, future, image_map, tiles,
          cursor_image, infobar_image, broken, log, result, queue, sent,
          handled, parked, parked_queue, tasks, text, overlay

\* the Game fields and what the last handler did
game_vars == <<pc, overflow_checks, map_size, screen_size, cursor_pos, screen,
               last_mouse_pan, now, last_event, last_pos, draws, overflowed>>

\* the map file and the images of the bootstrap (requests: the paths passed
\* to get_file and get_image, in the order of the calls; resolved: the
\* positions in requests of the futures that have been ready), the log, the
\* value run_internal returned, and the event queue with its history (sent:
\* the events passed to send; handled: the events the loop has taken), the
\* senders that are parked, the order in which senders parked, and the
\* spawned send_async tasks that have not sent their event yet
load_vars == <<map_file, requests, resolved, awaiting, future, image_map,
               tiles, cursor_image, infobar_image, broken>>
queue_vars == <<queue, sent, handled, parked, parked_queue, tasks>>
run_vars == <<load_vars, log, result, queue_vars>>

\* what the canvas shows: text is the string of the last draw_text call;
\* overlay holds the places of the viewport grid (tile offsets from the
\* top-left corner of the canvas) where the cursor image is the last thing
\* drawn
display_vars == <<text, overlay>>

vars == <<game_vars, run_vars, display_vars>>

\* ----------------------------------------------------------------- bounds
\* largest number of rows and of columns of a decoded map
MaxMap == 2
\* the clock stops advancing at this instant (ms after start)
MaxTime == 300
\* events the producers send in a run that begins with the bootstrap, and in
\* a run that begins at the event loop
MaxSentAtBoot == 1
MaxSent == 2
\* events the listeners send in a run that fills the queue
MaxProduced == 11

\* ------------------------------------------------------------ input sets
Vec(a, b) == [x |-> a, y |-> b]

\* map dimensions a map file can decode to (an empty grid included): at most
\* MaxMap columns and MaxMap rows, and at most MaxMap + 2 of both together;
\* and the two strips of three cells, the shortest on which a viewport that
\* was shrunk and panned can be shrunk again
MapSizes == {v \in {Vec(c, r) : c \in 0..MaxMap, r \in 0..MaxMap} :
                v.x + v.y <= MaxMap + 2}
                \cup {Vec(1, 3), Vec(3, 1)}

\* canvas sizes (get_width, get_height)
ScreenSizes == {Vec(60, 60), Vec(120, 60)}

\* time that passes between two readings of the clock (ms)
DeltaTimes == {100, 150}

\* pointer offsets on one axis of extent s: left of the canvas by more than
\* a tile, near the start, past the middle, near the end, on the far border
MouseOffsets(s) == {0 - s - 10, 5, (s \div 2) + 5, s - 5, s}

MousePositions == {Vec(a, b) : a \in MouseOffsets(screen_size.x),
                               b \in MouseOffsets(screen_size.y)}

\* the paths of the map file and of the two overlay images
MAP_FILE == "map.map"
CURSOR_IMAGE == "cursor.png"
INFO_BAR_IMAGE == "infobar.png"

\* an absent image (Option::None)
NoImage == "none"

\* serialization::TileType
TileType(n, i) == [name |-> n, image |-> i]

\* tile-type tables: empty, one type, two types sharing a path, two types
\* with a path each
TileTables ==
    { <<>>,
      <<TileType("grass", "a.png")>>,
      <<TileType("grass", "a.png"), TileType("sand", "a.png")>>,
      <<TileType("grass", "a.png"), TileType("water", "b.png")>> }

\* the cells of a grid of the given size (x: columns, y: rows)
grid_cells(size) == {Vec(c, r) : c \in 0..(size.x - 1), r \in 0..(size.y - 1)}

\* a decoded grid: its dimensions and the tile-type index of each cell; in
\* Grid(w, h, k) the cell in column c of row r holds index c + r + k
Grid(w, h, k) == [size |-> Vec(w, h),
                  idx |-> [c \in grid_cells(Vec(w, h)) |-> c.x + c.y + k]]

\* grids: no cells, and one row of two cells holding 0, 1 or 1, 2
Grids == { Grid(0, 0, 0), Grid(2, 1, 0), Grid(2, 1, 1) }

\* a tile-type table of nine types, each with a name and an image of its own
TerrainNames == <<"plain", "forest", "hill", "river", "road", "swamp", "sand",
                  "snow", "rock">>
TerrainTable == [i \in 1..Len(TerrainNames) |->
                    TileType(TerrainNames[i], TerrainNames[i])]

\* the grid of the given size (at most 3 x 3) whose cells all hold different
\* indices into that table
TerrainGrid(size) == [size |-> size,
                      idx |-> [c \in grid_cells(size) |-> c.x + 3 * c.y]]

\* what the fetch of the map file gives: status "fetch_err" (get_file is
\* Err(error)), "decode_err" (the bytes do not decode; error is the
\* decoder's text) or "ok" (the bytes decode to tile_types and map)
MapFile(st, e, tt, g) == [status |-> st, error |-> e, tile_types |-> tt, map |-> g]

MapFiles ==
    { MapFile("fetch_err", "error sending request", <<>>, Grid(0, 0, 0)),
      MapFile("decode_err", "invalid marker", <<>>, Grid(0, 0, 0)) }
    \cup { MapFile("ok", "", tt, g) : tt \in TileTables, g \in Grids }

\* one Event; pos is the payload of a MouseMove
Ev(k, p) == [kind |-> k, pos |-> p]

\* the events the input handlers of the platform send
SentEvents ==
    { Ev(k, Vec(0, 0)) : k \in {"Right", "Left", "Up", "Down", "ZoomIn", "ZoomOut"} }
    \cup { Ev("MouseMove", Vec(35, 30)) }

\* ------------------------------------------------------------- geometry
\* u32 subtraction: the residue and whether it wrapped
Sub32(a, b) == [v |-> a - b, wrapped |-> a < b]

\* u32 order between a residue and a small non-negative value
Gt32(a, b) == a < 0 \/ a > b

\* Vector - Vector on MapDistance
VecSub(p, q) == [v |-> Vec(Sub32(p.x, q.x).v, Sub32(p.y, q.y).v),
                 wrapped |-> Sub32(p.x, q.x).wrapped \/ Sub32(p.y, q.y).wrapped]

left(r) == r.top_left.x
top(r) == r.top_left.y
right(r) == r.top_left.x + r.size.x
bottom(r) == r.top_left.y + r.size.y

\* f64 -> u32 through NumCast: absent at or below -1, truncated otherwise
lossy_cast_axis(num, den) ==
    IF num >= 0 THEN [some |-> TRUE, v |-> num \div den]
    ELSE IF 0 - num < den THEN [some |-> TRUE, v |-> 0]
    ELSE [some |-> FALSE, v |-> 0]

\* screen pixels per tile
get_tile_size(sc) == Vec(screen_size.x \div sc.size.x, screen_size.y \div sc.size.y)

\* whether pos indexes the grid (ndarray panics on an index outside it)
in_map(pos) == /\ pos.x >= 0 /\ pos.x < map_size.x
               /\ pos.y >= 0 /\ pos.y < map_size.y

\* pointer position to map coordinate
get_map_pos(sc, pos) ==
    LET cx == lossy_cast_axis(pos.x * sc.size.x, screen_size.x)
        cy == lossy_cast_axis(pos.y * sc.size.y, screen_size.y)
    IN  IF cx.some /\ cy.some
        THEN [some |-> TRUE, v |-> Vec(cx.v + sc.top_left.x, cy.v + sc.top_left.y)]
        ELSE [some |-> FALSE, v |-> Vec(0, 0)]

\* ------------------------------------------------------ Platform calls
\* One Platform call.  op "tile": attempt_draw of the image of the tile at
\* pos; "cursor": attempt_draw of the cursor image; both at the rectangle
\* whose top-left is off tiles from the screen origin (get_screen_pos).
\* "infobar": attempt_draw of the infobar image; "text": draw_text of the
\* name of the tile at pos.
Call(o, p, d) == [op |-> o, pos |-> p, off |-> d]

\* the calls made so far, whether the code panicked after them, and whether
\* a u32 subtraction wrapped on the way
Out(c, p, w) == [calls |-> c, panic |-> p, wrapped |-> w]

\* get_screen_pos: the tile offset of pos from the viewport origin
get_screen_pos(sc, pos) == VecSub(pos, sc.top_left)

\* the top-left corner, in pixels, of the rectangle get_screen_pos returns:
\* the tile size times the tile offset
screen_top_left(sc, pos) ==
    LET o == get_screen_pos(sc, pos)
        t == get_tile_size(sc)
    IN  [v |-> Vec(t.x * o.v.x, t.y * o.v.y), wrapped |-> o.wrapped]

draw_cursor(cp, sc) ==
    LET sp == get_screen_pos(sc, cp)
    IN  IF sp.wrapped /\ overflow_checks THEN Out(<<>>, TRUE, TRUE)
        ELSE Out(<<Call("cursor", cp, sp.v)>>, FALSE, sp.wrapped)

draw_infobar(cp) ==
    IF in_map(cp)
    THEN Out(<<Call("infobar", cp, Vec(0, 0)), Call("text", cp, Vec(0, 0))>>, FALSE, FALSE)
    ELSE Out(<<Call("infobar", cp, Vec(0, 0))>>, TRUE, FALSE)

\* run b after a unless a panicked
Then(a, b) == IF a.panic THEN a
              ELSE Out(a.calls \o b.calls, b.panic, a.wrapped \/ b.wrapped)

\* the tiles of the viewport, row by row
tile_calls(sc) ==
    [i \in 1..(sc.size.x * sc.size.y) |->
        LET c == (i - 1) % sc.size.x
            r == (i - 1) \div sc.size.x
        IN  Call("tile", Vec(c + sc.top_left.x, r + sc.top_left.y), Vec(c, r))]

redraw(cp, sc) ==
    IF right(sc) > map_size.x \/ bottom(sc) > map_size.y
    THEN Out(<<>>, TRUE, FALSE)
    ELSE Then(Then(Out(tile_calls(sc), FALSE, FALSE), draw_cursor(cp, sc)),
              draw_infobar(cp))

\* what a handler leaves: the Game fields and the outcome of its calls
Res(cp, sc, lmp, o) ==
    [cursor_pos |-> cp, screen |-> sc, last_mouse_pan |-> lmp,
     calls |-> o.calls, panic |-> o.panic, wrapped |-> o.wrapped]

\* move_cursor that draws the infobar before it moves the cursor
move_cursor_stale_infobar(sc, pos) ==
    LET sp == get_screen_pos(sc, cursor_pos)
        erase == IF ~in_map(cursor_pos) THEN Out(<<>>, TRUE, FALSE)
                 ELSE IF sp.wrapped /\ overflow_checks THEN Out(<<>>, TRUE, TRUE)
                 ELSE Out(<<Call("tile", cursor_pos, sp.v)>>, FALSE, sp.wrapped)
    IN  Res(IF erase.panic THEN cursor_pos ELSE pos, sc, last_mouse_pan,
            Then(Then(erase, draw_cursor(pos, sc)), draw_infobar(cursor_pos)))

\* move_cursor on viewport sc, toward pos
move_cursor(sc, pos) ==
    LET sp == get_screen_pos(sc, cursor_pos)
        erase == IF ~in_map(cursor_pos) THEN Out(<<>>, TRUE, FALSE)
                 ELSE IF sp.wrapped /\ overflow_checks THEN Out(<<>>, TRUE, TRUE)
                 ELSE Out(<<Call("tile", cursor_pos, sp.v)>>, FALSE, sp.wrapped)
    IN  Res(IF erase.panic THEN cursor_pos ELSE pos, sc, last_mouse_pan,
            Then(Then(erase, draw_cursor(pos, sc)), draw_infobar(pos)))

\* a handler that returns without drawing
no_op == Res(cursor_pos, screen, last_mouse_pan, Out(<<>>, FALSE, FALSE))

\* ----------------------------------------------------------- map model
\* a Tile: the image of its type, if that image was loaded, and the name
Tile(i, n) == [image |-> i, name |-> n]

\* get_tile that counts the types of the table from 1
get_tile_from_one(images, types, type_id) ==
    IF type_id \in DOMAIN types
    THEN [some |-> TRUE,
          v |-> Tile(IF types[type_id].image \in images
                     THEN types[type_id].image ELSE NoImage,
                     types[type_id].name)]
    ELSE [some |-> FALSE, v |-> Tile(NoImage, "")]

\* the tile of type type_id (counted from 0), if the table has that type;
\* images holds the paths whose image is in image_map
get_tile(images, types, type_id) ==
    IF type_id + 1 \in DOMAIN types
    THEN [some |-> TRUE,
          v |-> Tile(IF types[type_id + 1].image \in images
                     THEN types[type_id + 1].image ELSE NoImage,
                     types[type_id + 1].name)]
    ELSE [some |-> FALSE, v |-> Tile(NoImage, "")]

\* the log entry of a cell whose index is not in the table
INVALID_MAP_FILE == "Error: Invalid map file"

\* map generation: the tile of every cell, the placeholder where get_tile
\* gives none
generate_map(images, types, grid) ==
    [c \in DOMAIN grid.idx |->
        LET t == get_tile(images, types, grid.idx[c])
        IN  IF t.some THEN t.v ELSE Tile(NoImage, "ERROR")]

\* the entries map generation logs: one for each cell get_tile gives none for
generate_map_log(types, grid) ==
    LET bad == {c \in DOMAIN grid.idx : ~get_tile({}, types, grid.idx[c]).some}
    IN  [i \in 1..Cardinality(bad) |-> INVALID_MAP_FILE]

\* the value run_internal has returned, if it has
Running == [state |-> "running", msg |-> ""]
Ok == [state |-> "Ok", msg |-> ""]
\* Error::from that keeps no text of the failure
Error_without_text(e) == [state |-> "Err", msg |-> ""]

\* Error::from: the message is the failure's text
Error(e) == [state |-> "Err", msg |-> e]

\* --------------------------------------------------------------- state
\* mouse_pan_delay, in ms
mouse_pan_delay == 100

last_column == Sub32(map_size.x, 1).v
last_row == Sub32(map_size.y, 1).v

Init ==
    /\ pc = "boot"
    /\ overflow_checks \in BOOLEAN
    /\ map_size \in MapSizes
    /\ screen_size \in ScreenSizes
    /\ cursor_pos = Vec(0, 0)
    /\ screen = [top_left |-> Vec(0, 0), size |-> map_size]
    /\ last_mouse_pan = 0
    /\ now = 0
    /\ last_event = "none"
    /\ last_pos = Vec(0, 0)
    /\ draws = <<>>
    /\ overflowed = FALSE
    /\ map_file = MapFile("ok", "", TerrainTable, TerrainGrid(map_size))
    /\ requests = <<MAP_FILE, CURSOR_IMAGE, INFO_BAR_IMAGE>>
                      \o [i \in 1..Len(TerrainTable) |-> TerrainTable[i].image]
    /\ resolved = DOMAIN requests
    /\ awaiting = Len(TerrainTable) + 1
    /\ future = "unpolled"
    /\ image_map = {TerrainTable[i].image : i \in 1..Len(TerrainTable)}
    /\ tiles = generate_map(image_map, TerrainTable, map_file.map)
    /\ cursor_image = CURSOR_IMAGE
    /\ infobar_image = INFO_BAR_IMAGE
    /\ broken = {}
    /\ log = generate_map_log(TerrainTable, map_file.map)
    /\ result = Running
    /\ queue = <<>>
    /\ sent = <<>>
    /\ handled = <<>>
    /\ parked = {}
    /\ parked_queue = <<>>
    /\ tasks = <<>>
    /\ text = ""
    /\ overlay = {}

\* whether attempt_draw of image draws anything: an absent image and an
\* element whose load failed draw nothing
drawn(image) == image # NoImage /\ image \notin broken

\* Game::get_tile indexes the map: an index outside it panics
indexed(pos) == pos \in DOMAIN tiles

\* the string on the canvas after draw_infobar at map position pos: the name
\* of the tile there (a panic in get_tile leaves the string as it was)
name_drawn(shown, pos) == IF indexed(pos) THEN tiles[pos].name ELSE shown

\* the string on the canvas after calls: that of the last draw_text call
\* (the last call of all, unless a panic cut the calls short)
text_after(shown, calls) ==
    IF calls = <<>> THEN shown
    ELSE IF calls[Len(calls)].op = "text"
    THEN name_drawn(shown, calls[Len(calls)].pos)
    ELSE LET texts == {i \in DOMAIN calls : calls[i].op = "text"}
         IN  IF texts = {} THEN shown
             ELSE name_drawn(shown,
                     calls[CHOOSE i \in texts : \A j \in texts : j <= i].pos)

\* whether a rectangle at tile offset off lies on a canvas of size tiles
on_canvas(off, size) == /\ 0 <= off.x /\ off.x < size.x
                        /\ 0 <= off.y /\ off.y < size.y

\* the places of a grid of size tiles that a place o of a grid of old tiles
\* overlaps (the same canvas divided both ways)
overlapped(o, old, size) ==
    {n \in grid_cells(size) :
        /\ o.x * size.x < (n.x + 1) * old.x /\ n.x * old.x < (o.x + 1) * size.x
        /\ o.y * size.y < (n.y + 1) * old.y /\ n.y * old.y < (o.y + 1) * size.y}

\* the cursor images left on the canvas, as places of a grid of size tiles
carried_over(shown, old, size) ==
    IF old = size THEN shown
    ELSE UNION {overlapped(o, old, size) : o \in shown}

\* the places that show the cursor image after calls on a viewport of size
\* tiles.  cursors: the calls that put the cursor image on the canvas (a
\* draw off the canvas, of an absent image or of a failed element shows
\* nothing).  A place is covered when the last image put on it is a tile; a
\* place no call painted stays as it was.
overlay_after(shown, calls, size) ==
    LET cursors == {i \in DOMAIN calls :
                      /\ calls[i].op = "cursor"
                      /\ on_canvas(calls[i].off, size)
                      /\ drawn(cursor_image)}
        covered(o) == \E i \in DOMAIN calls :
                         /\ calls[i].off = o
                         /\ calls[i].op = "tile"
                         /\ indexed(calls[i].pos)
                         /\ drawn(tiles[calls[i].pos].image)
                         /\ \A j \in cursors : calls[j].off = o => j < i
    IN  {o \in shown \cup {calls[i].off : i \in cursors} : ~covered(o)}

\* the state after the handler of event ev (at pointer position mp, for a
\* MouseMove) that left r
Finish(ev, mp, r) ==
    /\ last_event' = ev
    /\ last_pos' = mp
    /\ cursor_pos' = r.cursor_pos
    /\ screen' = r.screen
    /\ last_mouse_pan' = r.last_mouse_pan
    /\ draws' = r.calls
    /\ overflowed' = r.wrapped
    /\ pc' = IF r.panic THEN "panicked" ELSE "loop"
    /\ text' = text_after(text, draws')
    /\ overlay' = overlay_after(carried_over(overlay, screen.size, screen'.size),
                                draws', screen'.size)
    /\ UNCHANGED <<overflow_checks, map_size, screen_size>>

\* Game construction, the first redraw, last_column and last_row
bootstrap ==
    LET o == redraw(cursor_pos, screen)
        sub == Sub32(map_size.x, 1).wrapped \/ Sub32(map_size.y, 1).wrapped
    IN  Res(cursor_pos, screen, last_mouse_pan,
            Then(o, Out(<<>>, sub /\ overflow_checks, sub)))

Bootstrap ==
    /\ pc = "boot"
    /\ UNCHANGED <<now, run_vars>>
    /\ Finish("boot", Vec(0, 0), bootstrap)

\* on_right with the trailing edge of the viewport taken one column too far
on_right_late_scroll ==
    IF cursor_pos.x < last_column
    THEN IF cursor_pos.x = right(screen)
         THEN LET cp == [cursor_pos EXCEPT !.x = @ + 1]
                  sc == [screen EXCEPT !.top_left.x = @ + 1]
              IN  Res(cp, sc, last_mouse_pan, redraw(cp, sc))
         ELSE move_cursor(screen, Vec(cursor_pos.x + 1, cursor_pos.y))
    ELSE no_op

on_right ==
    IF cursor_pos.x < last_column
    THEN IF cursor_pos.x = right(screen) - 1
         THEN LET cp == [cursor_pos EXCEPT !.x = @ + 1]
                  sc == [screen EXCEPT !.top_left.x = @ + 1]
              IN  Res(cp, sc, last_mouse_pan, redraw(cp, sc))
         ELSE move_cursor(screen, Vec(cursor_pos.x + 1, cursor_pos.y))
    ELSE no_op

on_left ==
    IF cursor_pos.x > 0
    THEN IF cursor_pos.x = left(screen)
         THEN LET cp == [cursor_pos EXCEPT !.x = @ - 1]
                  sc == [screen EXCEPT !.top_left.x = @ - 1]
              IN  Res(cp, sc, last_mouse_pan, redraw(cp, sc))
         ELSE move_cursor(screen, Vec(cursor_pos.x - 1, cursor_pos.y))
    ELSE no_op

on_up ==
    IF cursor_pos.y > 0
    THEN IF cursor_pos.y = top(screen)
         THEN LET cp == [cursor_pos EXCEPT !.y = @ - 1]
                  sc == [screen EXCEPT !.top_left.y = @ - 1]
              IN  Res(cp, sc, last_mouse_pan, redraw(cp, sc))
         ELSE move_cursor(screen, Vec(cursor_pos.x, cursor_pos.y - 1))
    ELSE no_op

\* on_down with <= in the test against the last row
on_down_past_edge ==
    IF cursor_pos.y <= last_row
    THEN IF cursor_pos.y = bottom(screen) - 1
         THEN LET cp == [cursor_pos EXCEPT !.y = @ + 1]
                  sc == [screen EXCEPT !.top_left.y = @ + 1]
              IN  Res(cp, sc, last_mouse_pan, redraw(cp, sc))
         ELSE move_cursor(screen, Vec(cursor_pos.x, cursor_pos.y + 1))
    ELSE no_op

on_down ==
    IF cursor_pos.y < last_row
    THEN IF cursor_pos.y = bottom(screen) - 1
         THEN LET cp == [cursor_pos EXCEPT !.y = @ + 1]
                  sc == [screen EXCEPT !.top_left.y = @ + 1]
              IN  Res(cp, sc, last_mouse_pan, redraw(cp, sc))
         ELSE move_cursor(screen, Vec(cursor_pos.x, cursor_pos.y + 1))
    ELSE no_op

Event_Right == pc = "loop" /\ UNCHANGED <<now, run_vars>> /\ Finish("Right", Vec(0, 0), on_right)
Event_Left == pc = "loop" /\ UNCHANGED <<now, run_vars>> /\ Finish("Left", Vec(0, 0), on_left)
Event_Up == pc = "loop" /\ UNCHANGED <<now, run_vars>> /\ Finish("Up", Vec(0, 0), on_up)
Event_Down == pc = "loop" /\ UNCHANGED <<now, run_vars>> /\ Finish("Down", Vec(0, 0), on_down)

\* shrinks_y with the tile sizes compared the other way round
shrinks_y_swapped(sc) == get_tile_size(sc).y >= get_tile_size(sc).x /\ sc.size.y > 1

\* whether ZoomIn shrinks the vertical / the horizontal extent
shrinks_y(sc) == get_tile_size(sc).x >= get_tile_size(sc).y /\ sc.size.y > 1
shrinks_x(sc) == get_tile_size(sc).y >= get_tile_size(sc).x /\ sc.size.x > 1

\* the viewport ZoomIn leaves, given the cursor's offset in the viewport
zoom_in(sc, on_screen) ==
    LET sy == IF shrinks_y(sc) THEN sc.size.y - 1 ELSE sc.size.y
        ty == IF shrinks_y(sc) /\ Gt32(on_screen.y, sy \div 2)
              THEN sc.top_left.y + 1 ELSE sc.top_left.y
        sx == IF shrinks_x(sc) THEN sc.size.x - 1 ELSE sc.size.x
        tx == IF shrinks_x(sc) /\ Gt32(on_screen.x, sx \div 2)
              THEN sc.top_left.x + 1 ELSE sc.top_left.x
    IN  [top_left |-> Vec(tx, ty), size |-> Vec(sx, sy)]

\* on_zoom_in that redraws only when the viewport changed
on_zoom_in_lazy ==
    LET on_screen == VecSub(cursor_pos, screen.top_left)
        sc == zoom_in(screen, on_screen.v)
    IN  IF on_screen.wrapped /\ overflow_checks
        THEN Res(cursor_pos, screen, last_mouse_pan, Out(<<>>, TRUE, TRUE))
        ELSE IF sc = screen THEN no_op
        ELSE Res(cursor_pos, sc, last_mouse_pan,
                 Then(Out(<<>>, FALSE, on_screen.wrapped), redraw(cursor_pos, sc)))

on_zoom_in ==
    LET on_screen == VecSub(cursor_pos, screen.top_left)
        sc == zoom_in(screen, on_screen.v)
    IN  IF on_screen.wrapped /\ overflow_checks
        THEN Res(cursor_pos, screen, last_mouse_pan, Out(<<>>, TRUE, TRUE))
        ELSE Res(cursor_pos, sc, last_mouse_pan,
                 Then(Out(<<>>, FALSE, on_screen.wrapped), redraw(cursor_pos, sc)))

Event_ZoomIn == pc = "loop" /\ UNCHANGED <<now, run_vars>> /\ Finish("ZoomIn", Vec(0, 0), on_zoom_in)

\* the match of the event loop has no arm for ZoomOut
on_zoom_out == no_op

Event_ZoomOut == pc = "loop" /\ UNCHANGED <<now, run_vars>> /\ Finish("ZoomOut", Vec(0, 0), on_zoom_out)

\* pan_edge without the test that the viewport is not flush with the map
pan_edge_unbounded(sc, pos) ==
    LET t == get_tile_size(sc)
    IN  IF 2 * pos.y < t.y THEN "top"
        ELSE IF 2 * pos.y > 2 * screen_size.y - t.y THEN "bottom"
        ELSE IF 2 * pos.x < t.x THEN "left"
        ELSE IF 2 * pos.x > 2 * screen_size.x - t.x THEN "right"
        ELSE "none"

\* the edge the pointer asks to pan toward, "none" if there is none
pan_edge(sc, pos) ==
    LET t == get_tile_size(sc)
    IN  IF 2 * pos.y < t.y /\ top(sc) > 0 THEN "top"
        ELSE IF 2 * pos.y > 2 * screen_size.y - t.y /\ bottom(sc) < map_size.y THEN "bottom"
        ELSE IF 2 * pos.x < t.x /\ left(sc) > 0 THEN "left"
        ELSE IF 2 * pos.x > 2 * screen_size.x - t.x /\ right(sc) < map_size.x THEN "right"
        ELSE "none"

\* the viewport after a pan toward edge e
pan(sc, e) ==
    IF e = "top" THEN [sc EXCEPT !.top_left.y = @ - 1]
    ELSE IF e = "bottom" THEN [sc EXCEPT !.top_left.y = @ + 1]
    ELSE IF e = "left" THEN [sc EXCEPT !.top_left.x = @ - 1]
    ELSE IF e = "right" THEN [sc EXCEPT !.top_left.x = @ + 1]
    ELSE sc

\* pan_allowed with >= for >
pan_allowed_at_delay(time) == time - last_mouse_pan >= mouse_pan_delay

\* whether the debounce lets a MouseMove read at instant time pan
pan_allowed(time) == time - last_mouse_pan > mouse_pan_delay

\* the edge a MouseMove at pos, read at instant time, pans toward
panning(pos, time) == IF pan_allowed(time) THEN pan_edge(screen, pos) ELSE "none"

\* track with the bounds test against the map size instead of the last index
track_to_map_size(sc, pos) ==
    LET p == get_map_pos(sc, pos)
    IN  IF p.some /\ p.v.x <= map_size.x /\ p.v.y <= map_size.y
        THEN move_cursor(sc, p.v)
        ELSE Res(cursor_pos, sc, last_mouse_pan, Out(<<>>, FALSE, FALSE))

\* cursor tracking on viewport sc
track(sc, pos) ==
    LET p == get_map_pos(sc, pos)
    IN  IF p.some /\ p.v.x <= last_column /\ p.v.y <= last_row
        THEN move_cursor(sc, p.v)
        ELSE Res(cursor_pos, sc, last_mouse_pan, Out(<<>>, FALSE, FALSE))

on_mouse_move(pos, time) ==
    LET e == panning(pos, time)
        sc == pan(screen, e)
        r == IF e = "none" THEN Out(<<>>, FALSE, FALSE) ELSE redraw(cursor_pos, sc)
        m == track(sc, pos)
    IN  IF r.panic
        THEN Res(cursor_pos, sc, last_mouse_pan, r)
        ELSE Res(m.cursor_pos, sc, IF e = "none" THEN last_mouse_pan ELSE time,
                 Then(r, m))

Event_MouseMove ==
    /\ pc = "loop"
    /\ \E pos \in MousePositions, dt \in DeltaTimes :
         /\ now + dt <= MaxTime
         /\ now' = now + dt
         /\ Finish("MouseMove", pos, on_mouse_move(pos, now + dt))
    /\ UNCHANGED run_vars


\* ------------------------------------------- run_internal from its start
\* The task that runs run_internal is suspended at an await until the
\* awaited future is ready.  pc tells where it is: "start", "await_map",
\* "await_tile" (on the future of tile type number awaiting), "await_cursor",
\* "await_info", "boot" (the Game is constructed), then the event loop, or
\* "returned" (with an Err).  future is the state of the awaited image
\* future: "unpolled", "pending" (polled, the onload handler set), "woken"
\* (onload has fired) or "failed" (the load failed after the poll).  The
\* state of an image element is looked at only when its future is polled, so
\* the model chooses there what get_image and the load have made of it.
RunInit ==
    /\ pc = "start"
    /\ overflow_checks \in BOOLEAN
    /\ map_size = Vec(0, 0)
    /\ screen_size = Vec(60, 60)
    /\ cursor_pos = Vec(0, 0)
    /\ screen = [top_left |-> Vec(0, 0), size |-> Vec(0, 0)]
    /\ last_mouse_pan = 0
    /\ now = 0
    /\ last_event = "none"
    /\ last_pos = Vec(0, 0)
    /\ draws = <<>>
    /\ overflowed = FALSE
    /\ map_file \in MapFiles
    /\ requests = <<>>
    /\ resolved = {}
    /\ awaiting = 0
    /\ future = "unpolled"
    /\ image_map = {}
    /\ tiles = <<>>
    /\ cursor_image = NoImage
    /\ infobar_image = NoImage
    /\ broken = {}
    /\ log = <<>>
    /\ result = Running
    /\ queue = <<>>
    /\ sent = <<>>
    /\ handled = <<>>
    /\ parked = {}
    /\ parked_queue = <<>>
    /\ tasks = <<>>
    /\ text = ""
    /\ overlay = {}

\* the clock is read, the map file and the two overlay images are requested
\* and the task suspends on the fetch of the map file
Start ==
    /\ pc = "start"
    /\ pc' = "await_map"
    /\ last_mouse_pan' = now
    /\ requests' = <<MAP_FILE, CURSOR_IMAGE, INFO_BAR_IMAGE>>
    /\ UNCHANGED <<overflow_checks, map_size, screen_size, cursor_pos, screen, now,
                   last_event, last_pos, draws, overflowed>>
    /\ UNCHANGED display_vars
    /\ UNCHANGED <<map_file, resolved, awaiting, future, image_map, tiles, cursor_image,
                   infobar_image, broken, log, result, queue_vars>>

\* the paths of the tile types, in the order of the table
tile_image_paths(types) == [i \in 1..Len(types) |-> types[i].image]

\* await_tile_from that awaits the future of the first tile type only
await_first_tile_only(k, images) ==
    /\ awaiting' = k
    /\ image_map' = images
    /\ future' = "unpolled"
    /\ IF k <= Len(map_file.tile_types) /\ k <= 1
       THEN /\ pc' = "await_tile"
            /\ UNCHANGED <<tiles, log, map_size>>
       ELSE /\ pc' = "await_cursor"
            /\ tiles' = generate_map(images, map_file.tile_types, map_file.map)
            /\ log' = log \o generate_map_log(map_file.tile_types, map_file.map)
            /\ map_size' = map_file.map.size

\* the task goes on to await the future of tile type k with images in
\* image_map; past the last one it generates the map and goes on to await
\* the cursor image
await_tile_from(k, images) ==
    /\ awaiting' = k
    /\ image_map' = images
    /\ future' = "unpolled"
    /\ IF k <= Len(map_file.tile_types)
       THEN /\ pc' = "await_tile"
            /\ UNCHANGED <<tiles, log, map_size>>
       ELSE /\ pc' = "await_cursor"
            /\ tiles' = generate_map(images, map_file.tile_types, map_file.map)
            /\ log' = log \o generate_map_log(map_file.tile_types, map_file.map)
            /\ map_size' = map_file.map.size

\* the fetch of the map file resolves: an Err is returned at once, a decoded
\* file has get_image called for every tile type
MapFileAwait ==
    /\ pc = "await_map"
    /\ resolved' = resolved \cup {1}
    /\ IF map_file.status # "ok"
       THEN /\ pc' = "returned"
            /\ result' = Error(map_file.error)
            /\ UNCHANGED <<requests, awaiting, future, image_map, tiles, log,
                           map_size, broken>>
       ELSE /\ requests' = requests \o tile_image_paths(map_file.tile_types)
            /\ await_tile_from(1, image_map)
            /\ UNCHANGED <<result, broken>>
    /\ UNCHANGED <<overflow_checks, screen_size, cursor_pos, screen, last_mouse_pan,
                   now, last_event, last_pos, draws, overflowed>>
    /\ UNCHANGED display_vars
    /\ UNCHANGED <<map_file, cursor_image, infobar_image, queue_vars>>

\* LoadedImageElement::poll on a future in state f: Ready(None) without an
\* element ("none"); Ready(Some(element)) with an element that is complete,
\* its image loaded ("image") or its load failed ("broken"); Pending, with
\* the onload handler set, otherwise.  A future woken by onload is complete.
poll(f) == IF f = "unpolled" THEN {"none", "image", "broken", "pending"}
           ELSE {"image"}

\* whether the task can poll the awaited future
runnable == future \in {"unpolled", "woken"}

\* the elements whose load failed, once the element requested for path has
\* polled as o and replaced any earlier one
broken_after(path, o) ==
    IF o = "broken" THEN broken \cup {path}
    ELSE IF o = "image" THEN broken \ {path}
    ELSE broken

\* the task polls the future of a tile image; Some(image) is inserted in
\* image_map under the path
TileAwait ==
    /\ pc = "await_tile"
    /\ runnable
    /\ \E o \in poll(future) :
         IF o = "pending"
         THEN /\ future' = "pending"
              /\ UNCHANGED <<pc, resolved, awaiting, image_map, tiles, log, map_size,
                             broken>>
         ELSE LET path == map_file.tile_types[awaiting].image
              IN  /\ resolved' = resolved \cup {3 + awaiting}
                  /\ await_tile_from(awaiting + 1,
                                     IF o = "none" THEN image_map
                                     ELSE image_map \cup {path})
                  /\ broken' = broken_after(path, o)
    /\ UNCHANGED <<overflow_checks, screen_size, cursor_pos, screen, last_mouse_pan,
                   now, last_event, last_pos, draws, overflowed>>
    /\ UNCHANGED display_vars
    /\ UNCHANGED <<map_file, requests, cursor_image, infobar_image, result,
                   queue_vars>>

\* the task polls the future of the cursor image
CursorAwait ==
    /\ pc = "await_cursor"
    /\ runnable
    /\ \E o \in poll(future) :
         IF o = "pending"
         THEN /\ future' = "pending"
              /\ UNCHANGED <<pc, resolved, cursor_image, broken>>
         ELSE /\ pc' = "await_info"
              /\ resolved' = resolved \cup {2}
              /\ future' = "unpolled"
              /\ cursor_image' = IF o = "none" THEN NoImage ELSE CURSOR_IMAGE
              /\ broken' = broken_after(CURSOR_IMAGE, o)
    /\ UNCHANGED <<overflow_checks, map_size, screen_size, cursor_pos, screen,
                   last_mouse_pan, now, last_event, last_pos, draws, overflowed>>
    /\ UNCHANGED display_vars
    /\ UNCHANGED <<map_file, requests, awaiting, image_map, tiles,
                   infobar_image, log, result, queue_vars>>

\* the task polls the future of the infobar image; with it the Game is
\* constructed: the cursor on (0, 0), the viewport the whole map
InfoAwait ==
    /\ pc = "await_info"
    /\ runnable
    /\ \E o \in poll(future) :
         IF o = "pending"
         THEN /\ future' = "pending"
              /\ UNCHANGED <<pc, resolved, infobar_image, broken, cursor_pos, screen>>
         ELSE /\ pc' = "boot"
              /\ resolved' = resolved \cup {3}
              /\ future' = "unpolled"
              /\ infobar_image' = IF o = "none" THEN NoImage ELSE INFO_BAR_IMAGE
              /\ broken' = broken_after(INFO_BAR_IMAGE, o)
              /\ cursor_pos' = Vec(0, 0)
              /\ screen' = [top_left |-> Vec(0, 0), size |-> map_size]
    /\ UNCHANGED <<overflow_checks, map_size, screen_size, last_mouse_pan, now,
                   last_event, last_pos, draws, overflowed>>
    /\ UNCHANGED display_vars
    /\ UNCHANGED <<map_file, requests, awaiting, image_map, tiles,
                   cursor_image, log, result, queue_vars>>

\* the awaited image finishes loading: its onload handler wakes the task
Onload ==
    /\ future = "pending"
    /\ future' = "woken"
    /\ UNCHANGED <<game_vars, display_vars, map_file, requests, resolved, awaiting, image_map,
                   tiles, cursor_image, infobar_image, broken, log, result,
                   queue_vars>>

\* the load of the awaited image fails: the element is complete and its
\* onload handler is never called
Onerror ==
    /\ future = "pending"
    /\ future' = "failed"
    /\ UNCHANGED <<game_vars, display_vars, map_file, requests, resolved, awaiting, image_map,
                   tiles, cursor_image, infobar_image, broken, log, result,
                   queue_vars>>

\* ------------------------------------------------------- the event queue
EVENT_QUEUE_CAPACITY == 8

\* whether run_internal still holds the receiver
receiving == pc \notin {"returned", "panicked", "done"}

\* the Sender an event goes through: each listener owns one
listener(e) == IF e.kind = "MouseMove" THEN "mousemove"
               ELSE IF e.kind \in {"ZoomIn", "ZoomOut"} THEN "wheel"
               ELSE "keydown"

\* a message is put in the channel through sender s: it goes to the back of
\* the queue, and when the queue then holds more than the buffer the sender
\* parks (every sender has one slot beyond the buffer).  A clone is dropped
\* after its one message; its entry stays in the order of parked senders.
push(s, e) ==
    /\ queue' = Append(queue, e)
    /\ IF Len(queue) + 1 > EVENT_QUEUE_CAPACITY
       THEN /\ parked' = IF s = "clone" THEN parked ELSE parked \cup {s}
            /\ parked_queue' = Append(parked_queue, s)
       ELSE UNCHANGED <<parked, parked_queue>>

\* send_async given the listener's own sender instead of a clone
fallback_sender_own(s) == s

\* the sender send hands to send_async: a clone of the listener's
fallback_sender(s) == "clone"

\* send: try_send fails on a parked sender, and the event is handed to a
\* spawned send_async task; otherwise the event is in the channel
send(e) ==
    IF listener(e) \in parked
    THEN /\ tasks' = Append(tasks, [sender |-> fallback_sender(listener(e)),
                                    event |-> e])
         /\ UNCHANGED <<queue, parked, parked_queue>>
    ELSE /\ push(listener(e), e)
         /\ UNCHANGED tasks

\* whether the executor can run spawned task number i to its end: feed
\* waits while its sender is parked
can_send(i) == tasks[i].sender \notin parked

\* a listener is called with an event of events and calls send.  Listeners
\* are called from the browser's event loop, which has run the microtasks,
\* the spawned tasks among them, before it calls the next one.
SendOf(events, limit) ==
    /\ receiving
    /\ Len(sent) < limit
    /\ \A i \in DOMAIN tasks : ~can_send(i)
    /\ \E e \in events :
         /\ send(e)
         /\ sent' = Append(sent, e)
    /\ UNCHANGED <<game_vars, display_vars, load_vars, log, result, handled>>

\* an input handler calls send with one of the events of SentEvents
Send(limit) == SendOf(SentEvents, limit)

\* the events of a run that fills the queue: the keydown listener sends
\* Right, Left, Up, Down in turn, the wheel listener ZoomIn and ZoomOut in
\* turn, so that the events next to each other differ
ProducedEvents ==
    { Ev(<<"Right", "Left", "Up", "Down">>[(Len(sent) % 4) + 1], Vec(0, 0)),
      Ev(<<"ZoomIn", "ZoomOut">>[(Len(sent) % 2) + 1], Vec(0, 0)) }

Produce == SendOf(ProducedEvents, MaxProduced)

\* the executor runs the oldest spawned send_async task that can run: feed
\* puts its event in the channel through the task's sender
SendAsync ==
    /\ \E i \in DOMAIN tasks :
         /\ can_send(i)
         /\ \A j \in 1..(i - 1) : ~can_send(j)
         /\ push(tasks[i].sender, tasks[i].event)
         /\ tasks' = [k \in 1..(Len(tasks) - 1) |->
                         IF k < i THEN tasks[k] ELSE tasks[k + 1]]
    /\ UNCHANGED <<game_vars, display_vars, load_vars, log, result, sent, handled>>

\* the arm of the match for event e, the clock reading time
handler(e, time) ==
    IF e.kind = "Right" THEN on_right
    ELSE IF e.kind = "Left" THEN on_left
    ELSE IF e.kind = "Up" THEN on_up
    ELSE IF e.kind = "Down" THEN on_down
    ELSE IF e.kind = "ZoomIn" THEN on_zoom_in
    ELSE IF e.kind = "MouseMove" THEN on_mouse_move(e.pos, time)
    ELSE on_zoom_out

\* the time that passes before the handler of e reads the clock
clock_steps(e) == IF e.kind = "MouseMove" THEN DeltaTimes ELSE {0}

\* the receiver, having taken a message, unparks the sender that has been
\* parked longest
unpark_one ==
    IF parked_queue = <<>> THEN UNCHANGED <<parked, parked_queue>>
    ELSE /\ parked' = parked \ {Head(parked_queue)}
         /\ parked_queue' = Tail(parked_queue)

\* next_event that takes the newest event of the queue
next_event_newest(q) == q[Len(q)]

\* the event event_queue.next() gives: the one at the front
next_event(q) == Head(q)

\* event_queue.next() gives an event and its arm runs
Pull ==
    /\ pc = "loop"
    /\ queue # <<>>
    /\ \E dt \in clock_steps(next_event(queue)) :
         /\ now + dt <= MaxTime
         /\ now' = now + dt
         /\ Finish(next_event(queue).kind, next_event(queue).pos,
                   handler(next_event(queue), now + dt))
    /\ queue' = Tail(queue)
    /\ handled' = Append(handled, next_event(queue))
    /\ unpark_one
    /\ UNCHANGED <<load_vars, log, result, sent, tasks>>

\* the queue is empty and closed: the loop ends, "closing" is logged and
\* run_internal returns Ok
Close ==
    /\ pc = "loop"
    /\ queue = <<>>
    /\ pc' = "done"
    /\ last_event' = "closing"
    /\ last_pos' = Vec(0, 0)
    /\ draws' = <<>>
    /\ overflowed' = FALSE
    /\ log' = Append(log, "closing")
    /\ result' = Ok
    /\ UNCHANGED <<overflow_checks, map_size, screen_size, cursor_pos, screen, last_mouse_pan, now>>
    /\ UNCHANGED <<load_vars, queue_vars, display_vars>>

Next ==
    \/ Bootstrap
    \/ Event_Right
    \/ Event_Left
    \/ Event_Up
    \/ Event_Down
    \/ Event_ZoomIn
    \/ Event_ZoomOut
    \/ Event_MouseMove
    \/ Close

Spec == Init /\ [][Next]_vars

\* run_internal from its start, with the input handlers sending events
RunNext ==
    \/ Start
    \/ MapFileAwait
    \/ TileAwait
    \/ CursorAwait
    \/ InfoAwait
    \/ Onload
    \/ Onerror
    \/ Bootstrap
    \/ Send(MaxSentAtBoot)
    \/ Pull
    \/ Close

RunSpec == RunInit /\ [][RunNext]_vars

\* the event loop on a constructed Game, fed through the queue
QueueInit == Init /\ map_size = Vec(2, 2)

QueueNext ==
    \/ Bootstrap
    \/ Send(MaxSent)
    \/ Pull
    \/ Close

QueueSpec == QueueInit /\ [][QueueNext]_vars

\* the listeners filling the queue of a constructed Game on a map of one
\* tile, where every handler leaves the Game as it is
ProducerInit == Init /\ map_size = Vec(1, 1) /\ screen_size = Vec(60, 60)

ProducerNext ==
    \/ Bootstrap
    \/ Produce
    \/ SendAsync
    \/ Pull
    \/ Close

ProducerSpec == ProducerInit /\ [][ProducerNext]_vars

\* run_internal from its start when the executor runs the task whenever it
\* can run, the fetch of the map file resolves and every image that is
\* loading ends up loaded or failed
FairRunSpec ==
    /\ RunSpec
    /\ WF_vars(Start)
    /\ WF_vars(MapFileAwait)
    /\ WF_vars(TileAwait)
    /\ WF_vars(CursorAwait)
    /\ WF_vars(InfoAwait)
    /\ WF_vars(Bootstrap)
    /\ WF_vars(Onload \/ Onerror)

\* ------------------------------------------------------------ the claims
\* the handler of the event loop has returned (or the loop has ended)
Processed == pc \in {"loop", "done"}

\* pos lies in rectangle r
inside(pos, r) == /\ r.top_left.x <= pos.x /\ pos.x < r.top_left.x + r.size.x
                  /\ r.top_left.y <= pos.y /\ pos.y < r.top_left.y + r.size.y

\* the cells of rectangle r
cells(r) == {Vec(c, w) : c \in r.top_left.x..(r.top_left.x + r.size.x - 1),
                         w \in r.top_left.y..(r.top_left.y + r.size.y - 1)}

\* d is what a full redraw of viewport sc with the cursor at cp issues: every
\* cell of the viewport once, at its place, then the cursor, then the infobar
IsFullRedraw(d, cp, sc) ==
    LET n == sc.size.x * sc.size.y
    IN  /\ Len(d) = n + 3
        /\ \A t \in cells(sc) : \E i \in 1..n :
               d[i] = Call("tile", t, Vec(t.x - sc.top_left.x, t.y - sc.top_left.y))
        /\ d[n + 1].op = "cursor" /\ d[n + 1].pos = cp
        /\ d[n + 2].op = "infobar"
        /\ d[n + 3].op = "text" /\ d[n + 3].pos = cp

\* d is what move_cursor issues: the old cell's tile, the cursor on the new
\* cell, the infobar
IsIncrementalRedraw(d, old, new) ==
    /\ Len(d) = 4
    /\ d[1].op = "tile" /\ d[1].pos = old
    /\ d[2].op = "cursor" /\ d[2].pos = new
    /\ d[3].op = "infobar"
    /\ d[4].op = "text" /\ d[4].pos = new

\* C1: after every fully processed event the cursor lies inside the
\* viewport: top_left <= cursor_pos < top_left + size on both axes.
C1_CursorInViewport == Processed /\ last_event # "none" => inside(cursor_pos, screen)

\* C2: for a map with at least one row and one column, initially and after
\* any events, the viewport is inside the map and not empty.
C2_ViewportInMap ==
    map_size.x >= 1 /\ map_size.y >= 1 =>
        /\ screen.top_left.x >= 0 /\ screen.top_left.y >= 0
        /\ right(screen) <= map_size.x /\ bottom(screen) <= map_size.y
        /\ screen.size.x >= 1 /\ screen.size.y >= 1

\* zooms and pans have taken the viewport to the far corner of the map
C2_Witness ==
    /\ pc = "loop"
    /\ screen.top_left.x >= 1 /\ screen.top_left.y >= 1
    /\ right(screen) = map_size.x /\ bottom(screen) = map_size.y
    /\ last_event = "MouseMove"

\* C3: after any events the cursor is a valid map cell.
C3_CursorInMap ==
    (Processed \/ last_event \notin {"none", "boot"}) =>
        /\ 0 <= cursor_pos.x /\ cursor_pos.x < map_size.x
        /\ 0 <= cursor_pos.y /\ cursor_pos.y < map_size.y

\* a MouseMove on the far border of the canvas put the cursor on the last
\* column, outside the viewport
C3_Witness ==
    /\ pc = "loop" /\ last_event = "MouseMove"
    /\ last_pos.x = screen_size.x
    /\ cursor_pos.x = last_column /\ cursor_pos.x = right(screen)

\* C4: a directional event toward a map edge the cursor is on changes
\* nothing and draws nothing.
C4_Edge(ev) ==
    \/ ev = "Right" /\ cursor_pos.x = last_column
    \/ ev = "Left" /\ cursor_pos.x = 0
    \/ ev = "Up" /\ cursor_pos.y = 0
    \/ ev = "Down" /\ cursor_pos.y = last_row

C4_EdgeNoOp ==
    [][pc = "loop" /\ C4_Edge(last_event') =>
         /\ cursor_pos' = cursor_pos /\ screen' = screen
         /\ last_mouse_pan' = last_mouse_pan
         /\ draws' = <<>> /\ pc' = "loop"]_vars

\* Down was handled with the cursor on the last row of a map of several rows
C4_Witness ==
    /\ pc = "loop" /\ last_event = "Down" /\ draws = <<>>
    /\ cursor_pos.y = last_row /\ map_size.y > 1

\* the unit step of a directional event
Dir(ev) == IF ev = "Right" THEN Vec(1, 0)
           ELSE IF ev = "Left" THEN Vec(0 - 1, 0)
           ELSE IF ev = "Up" THEN Vec(0, 0 - 1)
           ELSE Vec(0, 1)

\* the cursor is on the edge of the viewport the event moves toward
Trailing(ev) ==
    \/ ev = "Right" /\ cursor_pos.x = screen.top_left.x + screen.size.x - 1
    \/ ev = "Left" /\ cursor_pos.x = screen.top_left.x
    \/ ev = "Up" /\ cursor_pos.y = screen.top_left.y
    \/ ev = "Down" /\ cursor_pos.y = screen.top_left.y + screen.size.y - 1

\* C5: a directional event with the cursor off the map edge moves the cursor
\* by one tile; on the viewport's trailing edge the viewport origin moves
\* with it, the size stays and a full redraw follows; otherwise the viewport
\* stays and the redraw is the incremental one of move_cursor.
C5_DirectionalMove ==
    [][pc = "loop" /\ last_event' \in {"Right", "Left", "Up", "Down"}
         /\ ~C4_Edge(last_event') =>
         LET d == Dir(last_event')
             moved == Vec(cursor_pos.x + d.x, cursor_pos.y + d.y)
         IN  /\ pc' = "loop"
             /\ cursor_pos' = moved
             /\ IF Trailing(last_event')
                THEN /\ screen'.top_left = Vec(screen.top_left.x + d.x,
                                               screen.top_left.y + d.y)
                     /\ screen'.size = screen.size
                     /\ IsFullRedraw(draws', moved, screen')
                ELSE /\ screen' = screen
                     /\ IsIncrementalRedraw(draws', cursor_pos, moved)]_vars

\* Right on the last column of the viewport scrolled the viewport
C5_Witness ==
    /\ pc = "loop" /\ last_event = "Right"
    /\ screen.top_left.x = 1 /\ cursor_pos.x = right(screen) - 1
    /\ IsFullRedraw(draws, cursor_pos, screen)

\* C6: a ZoomOut event grows the viewport by one tile on an axis that is
\* below the map's extent, keeps the viewport in the map and around the
\* cursor, and ends with a full redraw.
C6_ZoomOutGrows ==
    [][pc = "loop" /\ last_event' = "ZoomOut" =>
         /\ screen.size # map_size =>
               \/ screen'.size.x = screen.size.x + 1
               \/ screen'.size.y = screen.size.y + 1
         /\ right(screen') <= map_size.x /\ bottom(screen') <= map_size.y
         /\ inside(cursor_pos', screen')
         /\ IsFullRedraw(draws', cursor_pos', screen')]_vars

\* tile sizes before the event, compared without dividing:
\* screen_size.x / size.x >= screen_size.y / size.y, and the converse
WiderTiles == screen_size.x * screen.size.y >= screen_size.y * screen.size.x
TallerTiles == screen_size.y * screen.size.x >= screen_size.x * screen.size.y

\* C7 as stated: ZoomIn shrinks the vertical extent exactly when the vertical
\* tile size is >= the horizontal one and the extent exceeds 1, and the
\* horizontal extent exactly when the horizontal tile size is >= the
\* vertical one and the extent exceeds 1.
C7_AsStated ==
    [][pc = "loop" /\ last_event' = "ZoomIn" =>
         /\ screen'.size.y = screen.size.y - 1 <=> (TallerTiles /\ screen.size.y > 1)
         /\ screen'.size.x = screen.size.x - 1 <=> (WiderTiles /\ screen.size.x > 1)]_vars

\* C7: ZoomIn shrinks the vertical extent by one exactly when the horizontal
\* tile size is >= the vertical tile size and the vertical extent exceeds 1,
\* the horizontal extent by one exactly when the vertical tile size is >=
\* the horizontal one and the horizontal extent exceeds 1 (both when the tile
\* sizes are equal); an extent that does not shrink stays.
C7_ZoomInShrinks ==
    [][pc = "loop" /\ last_event' = "ZoomIn" =>
         /\ pc' = "loop"
         /\ screen'.size.y = IF WiderTiles /\ screen.size.y > 1
                             THEN screen.size.y - 1 ELSE screen.size.y
         /\ screen'.size.x = IF TallerTiles /\ screen.size.x > 1
                             THEN screen.size.x - 1 ELSE screen.size.x]_vars

\* on a canvas twice as wide as high, ZoomIn on a 2 x 2 viewport shrank the
\* vertical extent alone
C7_Witness ==
    /\ pc = "loop" /\ last_event = "ZoomIn"
    /\ screen_size = Vec(120, 60) /\ map_size = Vec(2, 2)
    /\ screen.size = Vec(2, 1)

\* C8: ZoomIn leaves an axis of extent 1 alone, never takes an extent below
\* 1, and always ends with a full redraw.
C8_ZoomInFloor ==
    [][pc = "loop" /\ last_event' = "ZoomIn" =>
         /\ pc' = "loop"
         /\ screen'.size.x >= 1 /\ screen'.size.y >= 1
         /\ screen.size.x = 1 =>
               screen'.size.x = 1 /\ screen'.top_left.x = screen.top_left.x
         /\ screen.size.y = 1 =>
               screen'.size.y = 1 /\ screen'.top_left.y = screen.top_left.y
         /\ IsFullRedraw(draws', cursor_pos', screen')]_vars

\* ZoomIn on a map of one tile, whose viewport is 1 x 1 throughout, redrew it
C8_Witness ==
    /\ pc = "loop" /\ last_event = "ZoomIn"
    /\ map_size = Vec(1, 1) /\ screen.size = Vec(1, 1)
    /\ IsFullRedraw(draws, cursor_pos, screen)

\* the pointer is within half a tile of an edge of the canvas (tile size =
\* screen_size / sc.size, compared without dividing)
NearTop(pos, sc) == 2 * pos.y * sc.size.y < screen_size.y
NearBottom(pos, sc) == 2 * pos.y * sc.size.y > 2 * screen_size.y * sc.size.y - screen_size.y
NearLeft(pos, sc) == 2 * pos.x * sc.size.x < screen_size.x
NearRight(pos, sc) == 2 * pos.x * sc.size.x > 2 * screen_size.x * sc.size.x - screen_size.x

\* the edge conditions: near the edge, and the viewport not flush on that side
TopMet(pos, sc) == NearTop(pos, sc) /\ sc.top_left.y > 0
BottomMet(pos, sc) == NearBottom(pos, sc) /\ sc.top_left.y + sc.size.y < map_size.y
LeftMet(pos, sc) == NearLeft(pos, sc) /\ sc.top_left.x > 0
RightMet(pos, sc) == NearRight(pos, sc) /\ sc.top_left.x + sc.size.x < map_size.x
EdgeMet(pos, sc) == TopMet(pos, sc) \/ BottomMet(pos, sc) \/ LeftMet(pos, sc) \/ RightMet(pos, sc)

\* the pointer is on the canvas
OnCanvas(pos) == /\ 0 <= pos.x /\ pos.x < screen_size.x
                 /\ 0 <= pos.y /\ pos.y < screen_size.y

\* the cell of viewport sc under a pointer on the canvas
CellUnder(pos, sc) == Vec(sc.top_left.x + (pos.x * sc.size.x) \div screen_size.x,
                          sc.top_left.y + (pos.y * sc.size.y) \div screen_size.y)

\* C9: a MouseMove at most 100 ms after last_mouse_pan changes neither the
\* viewport nor last_mouse_pan, and still tracks the cursor; one more than
\* 100 ms after it that meets an edge condition shifts the viewport; so a
\* shift by edge pan comes more than 100 ms after the previous one, whose
\* time last_mouse_pan holds.
C9_PanDebounce ==
    [][pc = "loop" /\ last_event' = "MouseMove" =>
         /\ now' - last_mouse_pan <= 100 =>
               /\ screen' = screen /\ last_mouse_pan' = last_mouse_pan
               /\ OnCanvas(last_pos') => cursor_pos' = CellUnder(last_pos', screen)
         /\ now' - last_mouse_pan > 100 /\ EdgeMet(last_pos', screen) =>
               screen' # screen
         /\ screen' # screen =>
               /\ now' - last_mouse_pan > 100
               /\ pc' = "loop" => last_mouse_pan' = now']_vars

\* 100 ms after a pan at 150 ms the pointer met an edge condition again and
\* the viewport stayed
C9_Witness ==
    /\ pc = "loop" /\ last_event = "MouseMove"
    /\ last_mouse_pan = 150 /\ now = 250
    /\ EdgeMet(last_pos, screen)

\* the first edge condition met, in the order top, bottom, left, right
FirstEdge(pos, sc) ==
    IF TopMet(pos, sc) THEN "top"
    ELSE IF BottomMet(pos, sc) THEN "bottom"
    ELSE IF LeftMet(pos, sc) THEN "left"
    ELSE IF RightMet(pos, sc) THEN "right"
    ELSE "none"

\* the origin of viewport sc moved one tile toward edge e
Shifted(sc, e) ==
    IF e = "top" THEN Vec(sc.top_left.x, sc.top_left.y - 1)
    ELSE IF e = "bottom" THEN Vec(sc.top_left.x, sc.top_left.y + 1)
    ELSE IF e = "left" THEN Vec(sc.top_left.x - 1, sc.top_left.y)
    ELSE IF e = "right" THEN Vec(sc.top_left.x + 1, sc.top_left.y)
    ELSE sc.top_left

\* d begins with a full redraw of viewport sc with the cursor at cp
BeginsWithFullRedraw(d, cp, sc) ==
    /\ Len(d) >= sc.size.x * sc.size.y + 3
    /\ IsFullRedraw(SubSeq(d, 1, sc.size.x * sc.size.y + 3), cp, sc)

\* what C10 says of a MouseMove the debounce allows to pan; done tells
\* whether the redraw and the update of last_mouse_pan are required
C10_Pan(done) ==
    LET e == FirstEdge(last_pos', screen)
    IN  /\ screen'.size = screen.size
        /\ screen'.top_left = Shifted(screen, e)
        /\ (e # "none" /\ done) =>
              /\ BeginsWithFullRedraw(draws', cursor_pos, screen')
              /\ last_mouse_pan' = now'
        /\ e = "none" => last_mouse_pan' = last_mouse_pan

\* C10: when the debounce allows it, the first edge condition met in the
\* order top, bottom, left, right shifts the viewport origin by one tile on
\* one axis, a full redraw follows and last_mouse_pan becomes the event's
\* time; the size never changes, and without a condition met neither the
\* viewport nor last_mouse_pan changes.
C10_AsStated ==
    [][pc = "loop" /\ last_event' = "MouseMove" /\ now' - last_mouse_pan > 100 =>
         C10_Pan(TRUE)]_vars

\* what holds of every pan whose handler returns
C10_WhenHandlerReturns ==
    [][pc = "loop" /\ last_event' = "MouseMove" /\ now' - last_mouse_pan > 100 =>
         C10_Pan(pc' = "loop")]_vars

\* the cast of the pointer's tile quotient to u32 gives a value: neither
\* quotient is at or below -1 (quotient = pos * size / screen_size)
CastSucceeds(pos, sc) == /\ pos.x * sc.size.x > 0 - screen_size.x
                         /\ pos.y * sc.size.y > 0 - screen_size.y

\* the truncation toward zero of num / den, for den > 0
Trunc(num, den) == IF num >= 0 THEN num \div den ELSE 0 - ((0 - num) \div den)

\* the map coordinate under the pointer on viewport sc
Tracked(pos, sc) == Vec(sc.top_left.x + Trunc(pos.x * sc.size.x, screen_size.x),
                        sc.top_left.y + Trunc(pos.y * sc.size.y, screen_size.y))

\* d ends with what move_cursor issues
EndsWithIncrementalRedraw(d, old, new) ==
    /\ Len(d) >= 4
    /\ IsIncrementalRedraw(SubSeq(d, Len(d) - 3, Len(d)), old, new)

\* C11: a MouseMove, panning or not, whose position converts (on the
\* viewport as it is after any pan) to a coordinate inside the map moves
\* the cursor there through move_cursor; when the cast fails or the
\* coordinate is outside the map the cursor stays; in both cases the
\* handler returns.
C11_MouseTracking ==
    [][pc = "loop" /\ last_event' = "MouseMove" =>
         LET p == Tracked(last_pos', screen')
         IN  /\ pc' = "loop"
             /\ IF CastSucceeds(last_pos', screen') /\ in_map(p)
                THEN /\ cursor_pos' = p
                     /\ EndsWithIncrementalRedraw(draws', cursor_pos, p)
                ELSE cursor_pos' = cursor_pos]_vars

\* what holds of cursor tracking in a build without overflow checks
C11_WithoutOverflowChecks ==
    [][pc = "loop" /\ last_event' = "MouseMove" /\ ~overflow_checks =>
         LET p == Tracked(last_pos', screen')
         IN  /\ pc' = "loop"
             /\ IF CastSucceeds(last_pos', screen') /\ in_map(p)
                THEN /\ cursor_pos' = p
                     /\ EndsWithIncrementalRedraw(draws', cursor_pos, p)
                ELSE cursor_pos' = cursor_pos]_vars

\* the cells of the map
MapCells == cells([top_left |-> Vec(0, 0), size |-> map_size])

\* C12: on every viewport the event loop reaches, for every cell t of the
\* map, get_screen_pos(t) has a top-left corner and get_map_pos of that
\* corner is Some(t).  (Where the subtraction of get_screen_pos wraps in a
\* build without overflow checks the corner lies beyond MouseDistance and
\* nothing is asked of it.)
C12_RoundTrip ==
    pc = "loop" =>
        \A t \in MapCells :
            LET c == screen_top_left(screen, t)
            IN  IF c.wrapped THEN ~overflow_checks
                ELSE get_map_pos(screen, c.v) = [some |-> TRUE, v |-> t]

\* the Game has been constructed
Constructed == pc \in {"boot", "loop", "panicked", "done"}

\* the map has been generated
Generated == pc \in {"await_cursor", "await_info"} \/ Constructed

\* the number of entries of the log that report an invalid map file
InvalidLogged == Cardinality({i \in DOMAIN log : log[i] = "Error: Invalid map file"})

\* the cells of the decoded grid whose index is not in the tile-type table
BadCells == {c \in DOMAIN map_file.map.idx :
                map_file.map.idx[c] >= Len(map_file.tile_types)}

\* C14: in the generated map a cell whose index is outside the tile-type
\* table is the placeholder (no image, name "ERROR") and has a log entry; a
\* cell whose index is inside has the name of its type and the image
\* image_map holds for the type's path, if any; the generated grid has the
\* cells and dimensions of the decoded one; and a decoded file never makes
\* run_internal return an Err or panic before the first redraw, which
\* panics only on a grid without cells.
C14_TileResolution ==
    (map_file.status = "ok" /\ Generated) =>
        /\ DOMAIN tiles = DOMAIN map_file.map.idx
        /\ map_size = map_file.map.size
        /\ \A c \in DOMAIN tiles :
              IF c \in BadCells
              THEN tiles[c] = [image |-> "none", name |-> "ERROR"]
              ELSE LET ty == map_file.tile_types[map_file.map.idx[c] + 1]
                   IN  /\ tiles[c].name = ty.name
                       /\ tiles[c].image = IF ty.image \in image_map
                                           THEN ty.image ELSE "none"
        /\ InvalidLogged = Cardinality(BadCells)
        /\ result.state # "Err"
        /\ (pc = "panicked" /\ last_event = "boot") => DOMAIN tiles = {}

\* the event loop runs on a map of two cells, one a tile with its image, the
\* other the placeholder
C14_Witness ==
    /\ pc = "loop"
    /\ Len(map_file.tile_types) = 1
    /\ tiles[Vec(0, 0)] = [image |-> "a.png", name |-> "grass"]
    /\ tiles[Vec(1, 0)] = [image |-> "none", name |-> "ERROR"]
    /\ InvalidLogged = 1

\* C15: when the fetch or the decoding of the map file fails, run_internal
\* returns an Err with the failure's text, having asked for the map file
\* once, constructed no Game, made no draw call and taken no event from the
\* queue.
C15_FetchFailure ==
    (map_file.status # "ok" /\ pc \notin {"start", "await_map"}) =>
        /\ pc = "returned"
        /\ result = [state |-> "Err", msg |-> map_file.error]
        /\ Cardinality({i \in DOMAIN requests : requests[i] = "map.map"}) = 1
        /\ ~Generated /\ tiles = <<>>
        /\ draws = <<>>
        /\ handled = <<>> /\ queue = sent

\* the bytes of the map file did not decode while an event was in the queue
C15_Witness ==
    /\ pc = "returned" /\ map_file.status = "decode_err"
    /\ result.msg = "invalid marker"
    /\ Len(queue) = 1

\* the paths of the tile-type table
TablePaths == {map_file.tile_types[i].image : i \in DOMAIN map_file.tile_types}

\* C16: the get_image calls made for tile types are as many as the distinct
\* paths of the tile-type table.
C16_FetchDedup ==
    (map_file.status = "ok" /\ pc \notin {"start", "await_map"}) =>
        Len(requests) - 3 = Cardinality(TablePaths)

\* C17: the Game is constructed, and a draw call made or an event taken from
\* the queue, only when every fetch the bootstrap issued (the map file, the
\* cursor image, the infobar image, every tile type's image) has resolved.
C17_AfterAllFetches ==
    (Constructed \/ draws # <<>> \/ handled # <<>>) =>
        /\ Constructed
        /\ requests = <<"map.map", "cursor.png", "infobar.png">>
                          \o [i \in 1..Len(map_file.tile_types) |->
                                 map_file.tile_types[i].image]
        /\ resolved = DOMAIN requests

\* the event loop began after five fetches had resolved, an event sent in the
\* meantime still in the queue
C17_Witness ==
    /\ pc = "loop" /\ last_event = "boot"
    /\ Len(requests) = 5 /\ resolved = 1..5
    /\ Len(queue) = 1 /\ handled = <<>>

\* the first redraw has run, to its end or to a panic
FirstRedrawRun == pc \in {"loop", "panicked", "done"}

\* C18: when the map file is fetched and decoded and every image load ends,
\* loaded or failed, the bootstrap comes to construct the Game and run the
\* first redraw.
C18_BootCompletes == [](map_file.status = "ok" => <>FirstRedrawRun)

\* C19: the loop takes the events one at a time from the front of the queue:
\* a step that handles an event handles the oldest one not yet handled, by
\* the arm of its kind, and removes it; at every moment the events handled
\* followed by those in the queue are the events sent, in the order sent;
\* and the loop ends only on an empty queue.
C19_InOrder ==
    [][/\ handled' # handled =>
             /\ queue # <<>>
             /\ handled' = Append(handled, Head(queue))
             /\ queue' = Tail(queue)
             /\ last_event' = Head(queue).kind
             /\ last_pos' = Head(queue).pos
       /\ handled' \o queue' = sent'
       /\ pc' = "done" => queue' = <<>>]_vars

\* one of two different events has been handled, the other waits in the queue
C19_Witness ==
    /\ pc = "loop"
    /\ Len(handled) = 1 /\ Len(queue) = 1
    /\ handled[1] # queue[1]
    /\ sent = <<handled[1], queue[1]>>

\* the load of an overlay image failed: its future gave no image, or gave
\* an element whose load had failed
OverlayFailed(held, path) == held = "none" \/ path \in broken

\* the log has an entry other than those of map generation and of the end
\* of the loop
FailureLogged == \E i \in DOMAIN log : log[i] \notin {"Error: Invalid map file", "closing"}

\* C20: once the Game is constructed, an overlay image (cursor, infobar)
\* whose load failed is absent from the Game and the failure is in the log.
C20_OverlayFailureLogged ==
    Constructed =>
        /\ OverlayFailed(cursor_image, "cursor.png") =>
              cursor_image = "none" /\ FailureLogged
        /\ OverlayFailed(infobar_image, "infobar.png") =>
              infobar_image = "none" /\ FailureLogged

\* the step is a handler that calls redraw: the first redraw, a directional
\* event on the trailing edge of the viewport, ZoomIn (when it gets past its
\* subtraction), a MouseMove that pans
CallsRedraw ==
    \/ pc = "boot"
    \/ /\ pc = "loop"
       /\ \/ /\ last_event' \in {"Right", "Left", "Up", "Down"}
             /\ ~C4_Edge(last_event') /\ Trailing(last_event')
          \/ /\ last_event' = "ZoomIn"
             /\ ~(overflow_checks /\ VecSub(cursor_pos, screen.top_left).wrapped)
          \/ /\ last_event' = "MouseMove"
             /\ now' - last_mouse_pan > 100 /\ EdgeMet(last_pos', screen)

\* the cursor as redraw finds it: a directional event moves it before the
\* redraw, cursor tracking after it
CursorAtRedraw == IF last_event' = "MouseMove" THEN cursor_pos ELSE cursor_pos'

\* C21: a full redraw, on a map with at least one cell, issues attempt_draw
\* once for every cell of the viewport (as it is when redraw is called) and
\* for no other cell, each at get_screen_pos of the cell, then draws the
\* cursor overlay, then the infobar overlay and the text.
C21_FullRedraw ==
    [][CallsRedraw /\ map_size.x >= 1 /\ map_size.y >= 1 =>
         BeginsWithFullRedraw(draws', CursorAtRedraw, screen')]_vars

\* what holds of every full redraw that returns
C21_WhenRedrawReturns ==
    [][CallsRedraw /\ pc' = "loop" =>
         BeginsWithFullRedraw(draws', CursorAtRedraw, screen')]_vars

\* what holds of every full redraw, returning or not: it begins with one
\* attempt_draw for every cell of the viewport, at its place
C21_TileDraws ==
    [][CallsRedraw /\ map_size.x >= 1 /\ map_size.y >= 1 =>
         LET n == screen'.size.x * screen'.size.y
         IN  /\ Len(draws') >= n
             /\ \A t \in cells(screen') : \E i \in 1..n :
                    draws'[i] = Call("tile", t, Vec(t.x - screen'.top_left.x,
                                                    t.y - screen'.top_left.y))
             /\ Len(draws') > n => draws'[n + 1].op = "cursor"]_vars

\* the viewport origin on one axis after ZoomIn, as C22 states it: from
\* origin o and extent e to extent e2, with the cursor at c
Recentered(o, e, e2, c) ==
    IF e2 = e - 1 /\ c - o > e2 \div 2 THEN o + 1 ELSE o

\* C22: on each axis ZoomIn shrinks, the viewport origin advances by one
\* tile exactly when the cursor's offset from the origin before the event
\* is greater than half the new extent (integer division); otherwise the
\* origin stays; the origin stays on an axis that is not shrunk, and
\* cursor_pos never changes.
C22_ZoomInRecenter ==
    [][pc = "loop" /\ last_event' = "ZoomIn" =>
         /\ cursor_pos' = cursor_pos
         /\ screen'.top_left.x = Recentered(screen.top_left.x, screen.size.x,
                                            screen'.size.x, cursor_pos.x)
         /\ screen'.top_left.y = Recentered(screen.top_left.y, screen.size.y,
                                            screen'.size.y, cursor_pos.y)]_vars

\* what holds of ZoomIn whenever the cursor is not behind the viewport origin
C22_WhenOffsetDefined ==
    [][(pc = "loop" /\ last_event' = "ZoomIn"
          /\ cursor_pos.x >= screen.top_left.x
          /\ cursor_pos.y >= screen.top_left.y) =>
         /\ cursor_pos' = cursor_pos
         /\ screen'.top_left.x = Recentered(screen.top_left.x, screen.size.x,
                                            screen'.size.x, cursor_pos.x)
         /\ screen'.top_left.y = Recentered(screen.top_left.y, screen.size.y,
                                            screen'.size.y, cursor_pos.y)]_vars

\* ZoomIn shrank the vertical extent and advanced the origin past a cursor
\* that was not behind it
C22_Advanced ==
    /\ pc = "loop" /\ last_event = "ZoomIn"
    /\ screen.top_left.y = 1 /\ screen.size = Vec(2, 1) /\ cursor_pos = Vec(0, 1)

\* C23: after the first redraw and after every processed event, the string
\* of the most recent draw_text call is the name of the tile at cursor_pos.
C23_InfobarText ==
    (Processed /\ last_event # "none") => text = tiles[cursor_pos].name

\* a MouseMove moved the cursor from the first cell of a 2 x 2 map to the
\* last one, and the infobar shows that cell's name
C23_Witness ==
    /\ pc = "loop" /\ last_event = "MouseMove"
    /\ map_size = Vec(2, 2) /\ cursor_pos = Vec(1, 1)
    /\ draws # <<>> /\ draws[1] = Call("tile", Vec(0, 0), Vec(0, 0))
    /\ text = "road"

\* C24: no u32 subtraction of run_internal or of the Game methods wraps: not
\* pos - screen.top_left in get_screen_pos, not cursor_pos - screen.top_left
\* in ZoomIn, not map_size - 1.
C24_NoWrap == ~overflowed

\* what holds of map_size - 1: it is evaluated on maps with a row and a
\* column only, and the decrements of the directional handlers and of the
\* pans leave the viewport origin and the cursor at or above 0
C24_LastIndexAndDecrements ==
    /\ last_event # "none" /\ pc # "panicked" => map_size.x >= 1 /\ map_size.y >= 1
    /\ screen.top_left.x >= 0 /\ screen.top_left.y >= 0
    /\ cursor_pos.x >= 0 /\ cursor_pos.y >= 0

\* what holds in a build with overflow checks: while the loop runs the
\* cursor is never behind the viewport origin
C24_CheckedBuildOrigin ==
    (overflow_checks /\ pc = "loop") =>
        /\ cursor_pos.x >= screen.top_left.x
        /\ cursor_pos.y >= screen.top_left.y

\* the place of the viewport grid where the cell of the cursor is
CursorPlace == Vec(cursor_pos.x - screen.top_left.x, cursor_pos.y - screen.top_left.y)

\* C25: with a cursor image that loaded, after the first redraw and after
\* every processed event the canvas shows the cursor image on the cell of
\* cursor_pos and on no other cell, whether or not the tiles have images.
C25_OverlayOnCursorOnly ==
    (Processed /\ last_event # "none" /\ drawn(cursor_image)) =>
        overlay = {CursorPlace}

\* what holds when the cursor and every tile have an image that loaded, as on
\* the maps of Spec: the canvas shows the cursor image on the cell of the cursor when that cell is
\* in the viewport, on no cell otherwise
C25_WhenTilesHaveImages ==
    (Processed /\ last_event # "none" /\ drawn(cursor_image)
        /\ \A c \in DOMAIN tiles : drawn(tiles[c].image)) =>
        overlay = IF inside(cursor_pos, screen) THEN {CursorPlace} ELSE {}

\* the events of the spawned send_async tasks, oldest first
TaskEvents == [i \in DOMAIN tasks |-> tasks[i].event]

\* C26: the events passed to send reach the event loop in the order of the
\* send calls: at every moment the events handled, then those in the queue,
\* then those still held by spawned send_async tasks are the events sent, in
\* the order sent; also when a parked sender makes try_send fail and send
\* falls back to send_async while another listener's try_send succeeds.
C26_SendOrder == handled \o queue \o TaskEvents = sent

\* the keydown listener filled the buffer and parked, its next event went
\* through send_async, and the wheel listener's try_send then put a later
\* event behind it
C26_Witness ==
    /\ Len(queue) = 11 /\ handled = <<>> /\ tasks = <<>>
    /\ \A i \in 1..10 : listener(queue[i]) = "keydown"
    /\ listener(queue[11]) = "wheel"
    /\ parked = {"keydown", "wheel"}

====
